---- MODULE Spec2Model ----
(***************************************************************************)
(* mapthens: the scrape / geocode / cache pipeline.                        *)
(*                                                                         *)
(* The server (server main.go, stored as the Go half of public/app.js)     *)
(* holds the global eventsCache behind a mutex, backs it by the file       *)
(* events.json, and fills it by scraping the Flagpole listing and          *)
(* geocoding every row dated today.  The Lambda variant                    *)
(* (mapthens-endpoints/scraper/scraper.go) runs the same extraction with   *)
(* another failure sentinel.                                               *)
(*                                                                         *)
(* Strings the code inspects (HasPrefix, TrimSpace, == "") are sequences   *)
(* of one-character strings; coordinates are whole degrees.                *)
(* A Go slice is a sequence; nil and empty slices both have length 0.      *)
(***************************************************************************)
EXTENDS Integers, Sequences, FiniteSets, TLC

\* ------------------------------------------------------------------ bounds
NumCallers == 2
MaxCalls == 2
MaxRows == 2
MaxRestarts == 1
MaxDay == 2
MaxEvents == 2

Callers == 1..NumCallers

\* ----------------------------------------------------------------- strings
DigitChar == <<"0", "1", "2", "3", "4", "5", "6", "7", "8", "9">>

Digits2(n) == <<DigitChar[((n \div 10) % 10) + 1], DigitChar[(n % 10) + 1]>>

Digits4(n) == Digits2(n \div 100) \o Digits2(n % 100)

\* time.Time.Format("2006-01-02")
Format(t) == Digits4(t.y) \o <<"-">> \o Digits2(t.m) \o <<"-">> \o Digits2(t.d)

\* strings.HasPrefix(s, prefix)
HasPrefix(s, prefix) ==
    /\ Len(s) >= Len(prefix)
    /\ SubSeq(s, 1, Len(prefix)) = prefix

IsSpace(ch) == ch \in {" ", "\t", "\n", "\r"}

RECURSIVE TrimLeft(_)
TrimLeft(s) ==
    IF s = <<>> THEN <<>>
    ELSE IF IsSpace(Head(s)) THEN TrimLeft(Tail(s)) ELSE s

RECURSIVE TrimRight(_)
TrimRight(s) ==
    IF s = <<>> THEN <<>>
    ELSE IF IsSpace(s[Len(s)]) THEN TrimRight(SubSeq(s, 1, Len(s) - 1)) ELSE s

\* strings.TrimSpace(s)
TrimSpace(s) == TrimRight(TrimLeft(s))

\* ------------------------------------------------------------ the listing
\* The server's clock: the listing rows below are dated relative to it.
Day(d) == [y |-> 2026, m |-> 11, d |-> d]

\* One ".tribe-events-calendar-list__event-row" of the listing, as the
\* selectors of scrapeEvents see it: hasDatetime/hasHref say whether the
\* attribute exists, the other fields are the raw text of the elements.
RowShow ==
    [hasDatetime |-> TRUE,
     datetimeAttr |-> Format(Day(1)) \o <<"T", "1", "9">>,
     datetimeText |-> <<" ", "7", "p", "m", "\n">>,
     category |-> <<"A", "r", "t">>,
     title |-> <<"\n", " ", "S", "h", "o", "w", " ">>,
     hasHref |-> TRUE,
     href |-> <<"/", "s">>,
     venue |-> <<" ", "4", "0", "W", " ">>,
     address |-> <<"1", " ", "M", "a", "i", "n", "\n">>,
     description |-> <<"f", "u", "n">>]

RowNoAddress ==
    [hasDatetime |-> TRUE,
     datetimeAttr |-> Format(Day(1)),
     datetimeText |-> <<"8", "p", "m">>,
     category |-> <<>>,
     title |-> <<"J", "a", "m">>,
     hasHref |-> FALSE,
     href |-> <<>>,
     venue |-> <<"B", "a", "r">>,
     address |-> <<" ">>,
     description |-> <<>>]

\* dated the next day, and with a title of white space only
RowTomorrow ==
    [hasDatetime |-> TRUE,
     datetimeAttr |-> Format(Day(2)),
     datetimeText |-> <<"9", "p", "m">>,
     category |-> <<>>,
     title |-> <<" ", "\n">>,
     hasHref |-> TRUE,
     href |-> <<"/", "t">>,
     venue |-> <<"P", "u", "b">>,
     address |-> <<"9", " ", "O", "a", "k">>,
     description |-> <<>>]

\* no datetime attribute at all
RowNoDate ==
    [hasDatetime |-> FALSE,
     datetimeAttr |-> <<>>,
     datetimeText |-> <<>>,
     category |-> <<>>,
     title |-> <<"G", "i", "g">>,
     hasHref |-> FALSE,
     href |-> <<>>,
     venue |-> <<>>,
     address |-> <<"1", " ", "M", "a", "i", "n">>,
     description |-> <<>>]

\* a datetime attribute that is a proper prefix of today's date
RowMonthOnly ==
    [hasDatetime |-> TRUE,
     datetimeAttr |-> SubSeq(Format(Day(1)), 1, 7),
     datetimeText |-> <<>>,
     category |-> <<>>,
     title |-> <<"F", "a", "i", "r">>,
     hasHref |-> FALSE,
     href |-> <<>>,
     venue |-> <<>>,
     address |-> <<>>,
     description |-> <<>>]

Rows == {RowShow, RowNoAddress, RowTomorrow, RowNoDate, RowMonthOnly}

SeqsUpTo(S, n) == UNION {[1..k -> S] : k \in 0..n}

ListingParsed(l) == ~l.err /\ l.status = 200 /\ l.parsed

\* What http.Get("https://flagpole.com/events/") and the HTML parser give,
\* for listings of at most n rows.
ListingReplies(n) ==
    {[err |-> TRUE, status |-> 0, parsed |-> FALSE, rows |-> <<>>],
     [err |-> FALSE, status |-> 503, parsed |-> FALSE, rows |-> <<>>],
     [err |-> FALSE, status |-> 200, parsed |-> FALSE, rows |-> <<>>]}
    \cup {[err |-> FALSE, status |-> 200, parsed |-> TRUE, rows |-> d] :
             d \in SeqsUpTo(Rows, n)}

\* The answers of flagpole.com to the server in the runs below: the three
\* failures, a page whose only row has no date, a page with one row dated
\* day 1, and a page with a row of another date before that row.
ServerListings ==
    {l \in ListingReplies(2) :
        ListingParsed(l) => l.rows \in {<<RowNoDate>>, <<RowShow>>,
                                        <<RowTomorrow, RowShow>>}}

\* ----------------------------------------------------------- the geocoder
Athens == <<-83, 34>>
Atlanta == <<-84, 33>>

\* What http.Get on the Mapbox forward-geocoding URL and the JSON decoder
\* give: a transport error, a status, a body that decodes or not, and the
\* coordinates of the decoded features.
GeoReplies ==
    {[err |-> TRUE, status |-> 0, decoded |-> FALSE, features |-> <<>>],
     [err |-> FALSE, status |-> 401, decoded |-> FALSE, features |-> <<>>],
     [err |-> FALSE, status |-> 200, decoded |-> FALSE, features |-> <<>>],
     [err |-> FALSE, status |-> 200, decoded |-> TRUE, features |-> <<>>],
     [err |-> FALSE, status |-> 200, decoded |-> TRUE, features |-> <<Athens>>],
     [err |-> FALSE, status |-> 200, decoded |-> TRUE, features |-> <<Atlanta, Athens>>]}

\* The answers of the geocoding service to the server in the runs below: a
\* refusal and a match.
ServerGeoReplies == {r \in GeoReplies : r.status = 401 \/ r.features = <<Athens>>}

Tokens == {<<>>, <<"p", "k">>}

\* geocodeAddress of the server: (longitude, latitude, err)
geocodeAddress(address, accessToken, reply) ==
    IF accessToken = <<>> THEN [lon |-> 0, lat |-> 0, err |-> "MAPBOX_ACCESS_TOKEN not set"]
    ELSE IF reply.err THEN [lon |-> 0, lat |-> 0, err |-> "error making request"]
    ELSE IF reply.status # 200 THEN [lon |-> 0, lat |-> 0, err |-> "non-200 status code"]
    ELSE IF ~reply.decoded THEN [lon |-> 0, lat |-> 0, err |-> "error decoding json response"]
    ELSE IF Len(reply.features) = 0
        THEN [lon |-> 0, lat |-> 0, err |-> "number of features returned was zero"]
    ELSE [lon |-> reply.features[1][1], lat |-> reply.features[1][2], err |-> "nil"]

\* geocodeAddress of the Lambda scraper: the token is sent unchecked
geocodeAddressBatch(address, accessToken, reply) ==
    IF reply.err THEN [lon |-> 0, lat |-> 0, err |-> "error making request"]
    ELSE IF reply.status # 200 THEN [lon |-> 0, lat |-> 0, err |-> "non-200 status code"]
    ELSE IF ~reply.decoded THEN [lon |-> 0, lat |-> 0, err |-> "error decoding json response"]
    ELSE IF Len(reply.features) = 0
        THEN [lon |-> 0, lat |-> 0, err |-> "number of features returned was zero"]
    ELSE [lon |-> reply.features[1][1], lat |-> reply.features[1][2], err |-> "nil"]

\* ---------------------------------------------------------- the extractor
\* the Lambda scraper leaves the coordinates geocodeAddress returned
SentinelZero(variant) == 0

\* The failure sentinel of a variant: lines 259-260 of the server,
\* lines 119-120 of the Lambda scraper.
Sentinel(variant) == IF variant = "server" THEN 0 ELSE -1

Geocode(variant, address, accessToken, reply) ==
    IF variant = "server" THEN geocodeAddress(address, accessToken, reply)
    ELSE geocodeAddressBatch(address, accessToken, reply)

\* the latitude is left as geocodeAddress returned it
RowEventLatKept(row, accessToken, reply, variant) ==
    LET address == TrimSpace(row.address)
        g == Geocode(variant, address, accessToken, reply)
    IN [Date |-> row.datetimeAttr,
        Datetime |-> TrimSpace(row.datetimeText),
        Category |-> TrimSpace(row.category),
        Title |-> TrimSpace(row.title),
        EventLink |-> IF row.hasHref THEN row.href ELSE <<>>,
        Venue |-> TrimSpace(row.venue),
        Address |-> address,
        Description |-> TrimSpace(row.description),
        Latitude |-> g.lat,
        Longitude |-> IF g.err # "nil" THEN Sentinel(variant) ELSE g.lon]

\* The body of the Each callback for one row dated today: the event appended.
RowEvent(row, accessToken, reply, variant) ==
    LET address == TrimSpace(row.address)
        g == Geocode(variant, address, accessToken, reply)
        latitude == IF g.err # "nil" THEN Sentinel(variant) ELSE g.lat
        longitude == IF g.err # "nil" THEN Sentinel(variant) ELSE g.lon
    IN [Date |-> row.datetimeAttr,
        Datetime |-> TrimSpace(row.datetimeText),
        Category |-> TrimSpace(row.category),
        Title |-> TrimSpace(row.title),
        EventLink |-> IF row.hasHref THEN row.href ELSE <<>>,
        Venue |-> TrimSpace(row.venue),
        Address |-> address,
        Description |-> TrimSpace(row.description),
        Latitude |-> latitude,
        Longitude |-> longitude]

\* the arguments of HasPrefix exchanged
SkippedSwapped(row, today) == ~row.hasDatetime \/ ~HasPrefix(today, row.datetimeAttr)

\* The early return of the callback: the row is not dated today.
Skipped(row, today) == ~row.hasDatetime \/ ~HasPrefix(row.datetimeAttr, today)

\* doc.Find(rows).Each(callback): eventList after rows i..Len(rows), where
\* replies[i] is what the geocoding service answers to the call made for row i.
RECURSIVE EachRow(_, _, _, _, _, _, _)
EachRow(rows, i, today, accessToken, replies, variant, eventList) ==
    IF i > Len(rows) THEN eventList
    ELSE IF Skipped(rows[i], today)
        THEN EachRow(rows, i + 1, today, accessToken, replies, variant, eventList)
    ELSE EachRow(rows, i + 1, today, accessToken, replies, variant,
                 Append(eventList, RowEvent(rows[i], accessToken, replies[i], variant)))

\* scrapeEvents of either variant: (events, err)
scrapeEvents(listing, today, accessToken, replies, variant) ==
    IF listing.err THEN [events |-> <<>>, err |-> "failed to fetch events page"]
    ELSE IF listing.status # 200 THEN [events |-> <<>>, err |-> "received non-200 status code"]
    ELSE IF ~listing.parsed THEN [events |-> <<>>, err |-> "failed to parse HTML"]
    ELSE [events |-> EachRow(listing.rows, 1, today, accessToken, replies, variant, <<>>),
          err |-> "nil"]

\* a failed lookup is made a second time
RowCallsRetry(i, row, accessToken, reply, variant) ==
    LET address == TrimSpace(row.address)
        g == Geocode(variant, address, accessToken, reply)
        once == <<[op |-> "call", row |-> i, address |-> address],
                  [op |-> "return", row |-> i, address |-> address]>>
    IN IF g.err # "nil" THEN once \o once ELSE once

\* The geocodeAddress call of the Each callback for row i, dated today: the
\* call with the trimmed address, and its return before the callback goes on.
RowCalls(i, row, accessToken, reply, variant) ==
    LET address == TrimSpace(row.address)
    IN <<[op |-> "call", row |-> i, address |-> address],
         [op |-> "return", row |-> i, address |-> address]>>

\* doc.Find(rows).Each(callback), seen from the geocoding service: the calls
\* and returns of geocodeAddress over rows i..Len(rows), after log.
RECURSIVE EachRowCalls(_, _, _, _, _, _, _)
EachRowCalls(rows, i, today, accessToken, replies, variant, log) ==
    IF i > Len(rows) THEN log
    ELSE IF Skipped(rows[i], today)
        THEN EachRowCalls(rows, i + 1, today, accessToken, replies, variant, log)
    ELSE EachRowCalls(rows, i + 1, today, accessToken, replies, variant,
                      log \o RowCalls(i, rows[i], accessToken, replies[i], variant))

\* the geocodeAddress calls of one scrapeEvents
geocodeCalls(listing, today, accessToken, replies, variant) ==
    IF listing.err \/ listing.status # 200 \/ ~listing.parsed THEN <<>>
    ELSE EachRowCalls(listing.rows, 1, today, accessToken, replies, variant, <<>>)

\* ---------------------------------------------------------- the cache file
\* json.MarshalIndent of one Event: the struct tags name the JSON members.
MarshalEvent(e) ==
    [date |-> e.Date, datetime |-> e.Datetime, category |-> e.Category,
     title |-> e.Title, event_link |-> e.EventLink, venue |-> e.Venue,
     address |-> e.Address, description |-> e.Description,
     latitude |-> e.Latitude, longitude |-> e.Longitude]

UnmarshalEvent(o) ==
    [Date |-> o.date, Datetime |-> o.datetime, Category |-> o.category,
     Title |-> o.title, EventLink |-> o.event_link, Venue |-> o.venue,
     Address |-> o.address, Description |-> o.description,
     Latitude |-> o.latitude, Longitude |-> o.longitude]

\* json.MarshalIndent(events, "", "  "): the slice scrapeEvents returns is
\* nil when it appended nothing, and a nil slice is written as null.
MarshalIndent(events) ==
    IF Len(events) = 0 THEN [kind |-> "null", items |-> <<>>]
    ELSE [kind |-> "array", items |-> [i \in 1..Len(events) |-> MarshalEvent(events[i])]]

\* json.Unmarshal(data, &events)
Unmarshal(data) ==
    IF data.kind = "malformed" THEN [events |-> <<>>, err |-> "json"]
    ELSE [events |-> [i \in 1..Len(data.items) |-> UnmarshalEvent(data.items[i])],
          err |-> "nil"]

NoFile == [exists |-> FALSE, data |-> [kind |-> "malformed", items |-> <<>>]]

File(data) == [exists |-> TRUE, data |-> data]

\* A file cut short by a failed write, or not JSON at all.
Malformed == [kind |-> "malformed", items |-> <<>>]

\* the file is opened for appending: earlier items stay
saveEventsAppend(f, events, io) ==
    IF io = "ok"
    THEN [file |-> IF f.exists /\ f.data.kind = "array" /\ Len(events) > 0
                   THEN File([kind |-> "array",
                              items |-> f.data.items \o MarshalIndent(events).items])
                   ELSE File(MarshalIndent(events)),
          err |-> "nil"]
    ELSE IF io = "openErr" THEN [file |-> f, err |-> "open"]
    ELSE [file |-> File(Malformed), err |-> "write"]

\* saveEventsToFile(events) on the file f: os.WriteFile truncates the file
\* when it opens it, so a failure leaves it untouched (open failed) or cut
\* short (write failed).
saveEventsToFile(f, events, io) ==
    IF io = "ok" THEN [file |-> File(MarshalIndent(events)), err |-> "nil"]
    ELSE IF io = "openErr" THEN [file |-> f, err |-> "open"]
    ELSE [file |-> File(Malformed), err |-> "write"]

SaveOutcomes == {"ok", "openErr", "writeErr"}

\* loadEventsFromFile() on the file f; readOk is whether os.ReadFile succeeds
loadEventsFromFile(f, readOk) ==
    IF ~f.exists \/ ~readOk THEN [events |-> <<>>, err |-> "read"]
    ELSE Unmarshal(f.data)

\* ------------------------------------------------------------------ state
VARIABLES
    eventsCache,    \* the global in-memory collection of the server
    dataFile,       \* the file events.json
    fileBy,         \* the run whose successful save wrote dataFile, else 0
    mutex,          \* the caller holding mutex.Lock(), 0 when free
    pc,             \* where each caller is in getEvents
    local,          \* the locals of each caller's current call, and what it did
    calls,          \* the calls each caller has started in this run
    last,           \* the last call of this run that returned
    scraped,        \* the scrapeEvents() calls of this run
    run,            \* the number of the server process, from 1
    startFile,      \* whether the current process found a file, and its fileBy
    token,          \* the environment variable MAPBOX_ACCESS_TOKEN
    now,            \* the calendar day of time.Now()
    inListing,      \* extraction alone: the listing reply given to it
    inGeo,          \* extraction alone: the geocoding replies given to it
    outServer,      \* extraction alone: what the server's scrapeEvents returned
    outBatch,       \* extraction alone: what the Lambda's scrapeEvents returned
    geoLog,         \* extraction alone: the geocodeAddress calls of each variant
    resp,           \* the last response apiHandler wrote in this run
    saveFailed,     \* whether a saveEventsToFile of this run returned an error
    s3env,          \* Lambda scraper: the variables S3_BUCKET and S3_OBJECT_KEY
    s3,             \* Lambda scraper: the PutObject requests sent
    outHandler,     \* Lambda scraper: what handler returned
    inEvents,       \* cache file alone: the collection given to saveEventsToFile
    outSave,        \* cache file alone: the error saveEventsToFile returned
    outLoad         \* cache file alone: what loadEventsFromFile returned

vars == <<eventsCache, dataFile, fileBy, mutex, pc, local, calls, last, scraped,
          run, startFile, token, now, inListing, inGeo, outServer, outBatch,
          geoLog, resp, saveFailed, s3env, s3, outHandler, inEvents, outSave,
          outLoad>>

serverVars == <<eventsCache, dataFile, fileBy, mutex, pc, local, calls, last,
                scraped, run, startFile, resp, saveFailed>>

extractVars == <<inListing, inGeo, outServer, outBatch, geoLog>>

batchVars == <<s3env, s3, outHandler>>

cacheVars == <<inEvents, outSave, outLoad>>

\* the variables of the parts that are run alone
partVars == <<extractVars, batchVars, cacheVars>>

NotRun == [events |-> <<>>, err |-> "not run"]

\* The locals of a call and the record of what it did: the cache found when
\* the lock was taken; whether os.Stat found the file, the calls of
\* loadEventsFromFile, its error, whether and what it made the call adopt;
\* the calls of scrapeEvents, its events and err; the calls of
\* saveEventsToFile and its error.
NoLocal ==
    [atLock |-> <<>>, found |-> FALSE, reads |-> 0, loadErr |-> "nil", loaded |-> 0,
     fromFile |-> <<>>, scrapes |-> 0, events |-> <<>>, err |-> "nil", saves |-> 0,
     saveErr |-> "nil"]

\* no call of this run has returned yet
NoCall == [ret |-> <<>>, err |-> "none", cache |-> <<>>, did |-> NoLocal]

\* no geocodeAddress call was made by either variant
NoLog == [server |-> <<>>, batch |-> <<>>]

\* no request of this run has been answered yet
NoResp ==
    [method |-> "none", status |-> 0, payload |-> FALSE, events |-> <<>>,
     mapbox_token |-> <<>>]

\* An events.json left by an earlier day's run.
OldEvent == RowEvent(RowShow, <<"p", "k">>, CHOOSE r \in GeoReplies : r.features = <<Athens>>,
                     "server")

InitFiles ==
    {NoFile, File(Malformed), File([kind |-> "array", items |-> <<>>]),
     File(MarshalIndent(<<OldEvent>>))}

InitServer ==
    /\ eventsCache = <<>>
    /\ dataFile \in InitFiles
    /\ fileBy = 0
    /\ mutex = 0
    /\ pc = [c \in Callers |-> "idle"]
    /\ local = [c \in Callers |-> NoLocal]
    /\ calls = [c \in Callers |-> 0]
    /\ last = NoCall
    /\ scraped = 0
    /\ run = 1
    /\ startFile = [exists |-> dataFile.exists, by |-> 0]
    /\ resp = NoResp
    /\ saveFailed = FALSE

IdleExtract ==
    /\ inListing = [err |-> TRUE, status |-> 0, parsed |-> FALSE, rows |-> <<>>]
    /\ inGeo = <<>>
    /\ outServer = NotRun
    /\ outBatch = NotRun
    /\ geoLog = NoLog

IdleBatch ==
    /\ s3env = [S3_BUCKET |-> <<>>, S3_OBJECT_KEY |-> <<>>]
    /\ s3 = <<>>
    /\ outHandler = "not run"

IdleCache ==
    /\ inEvents = <<>>
    /\ outSave = "not run"
    /\ outLoad = NotRun

Init ==
    /\ InitServer
    /\ token \in Tokens
    /\ now = Day(1)
    /\ IdleExtract
    /\ IdleBatch
    /\ IdleCache

\* ------------------------------------------------------- getEvents, server
RECURSIVE Sum(_, _)
Sum(f, n) == IF n = 0 THEN 0 ELSE f[n] + Sum(f, n - 1)

\* a request handler calls getEvents(); a run serves MaxCalls requests
Call(c) ==
    /\ pc[c] = "idle"
    /\ Sum(calls, NumCallers) < MaxCalls
    /\ calls' = [calls EXCEPT ![c] = @ + 1]
    /\ pc' = [pc EXCEPT ![c] = "lock"]
    /\ UNCHANGED <<eventsCache, dataFile, fileBy, mutex, local, last, scraped, run,
                   startFile, resp, saveFailed, token, now, partVars>>

\* the lock is taken without waiting for its holder
LockNoWait(c) ==
    /\ pc[c] = "lock"
    /\ mutex' = c
    /\ local' = [local EXCEPT ![c].atLock = eventsCache]
    /\ pc' = [pc EXCEPT ![c] = "load"]
    /\ UNCHANGED <<eventsCache, dataFile, fileBy, calls, last, scraped, run,
                   startFile, resp, saveFailed, token, now, partVars>>

\* mutex.Lock()
Lock(c) ==
    /\ pc[c] = "lock"
    /\ mutex = 0
    /\ mutex' = c
    /\ local' = [local EXCEPT ![c].atLock = eventsCache]
    /\ pc' = [pc EXCEPT ![c] = "load"]
    /\ UNCHANGED <<eventsCache, dataFile, fileBy, calls, last, scraped, run,
                   startFile, resp, saveFailed, token, now, partVars>>

\* if len(eventsCache) == 0 { if Stat(dataFile) ok { load; adopt if no error } }
Load(c) ==
    /\ pc[c] = "load"
    /\ pc' = [pc EXCEPT ![c] = "scrape"]
    /\ IF Len(eventsCache) = 0 /\ dataFile.exists
       THEN \E readOk \in BOOLEAN :
               LET r == loadEventsFromFile(dataFile, readOk)
               IN /\ eventsCache' = IF r.err = "nil" THEN r.events ELSE eventsCache
                  /\ local' = [local EXCEPT
                        ![c].found = TRUE,
                        ![c].reads = @ + 1,
                        ![c].loadErr = r.err,
                        ![c].loaded = IF r.err = "nil" THEN 1 ELSE 0,
                        ![c].fromFile = IF r.err = "nil" THEN r.events ELSE <<>>]
       ELSE UNCHANGED <<eventsCache, local>>
    /\ UNCHANGED <<dataFile, fileBy, mutex, calls, last, scraped, run, startFile,
                   resp, saveFailed, token, now, partVars>>

\* a scrape made in this process counts as loaded, whatever it gave
ScrapeOnce(c) ==
    /\ pc[c] = "scrape"
    /\ IF Len(eventsCache) = 0 /\ scraped = 0
       THEN \E listing \in ServerListings :
            \E replies \in [1..Len(listing.rows) -> ServerGeoReplies] :
               LET r == scrapeEvents(listing, Format(now), token, replies, "server")
               IN /\ scraped' = scraped + 1
                  /\ IF r.err # "nil"
                     THEN /\ local' = [local EXCEPT ![c].err = r.err,
                                                    ![c].scrapes = @ + 1]
                          /\ pc' = [pc EXCEPT ![c] = "return"]
                          /\ UNCHANGED eventsCache
                     ELSE /\ local' = [local EXCEPT ![c].events = r.events,
                                                    ![c].scrapes = @ + 1]
                          /\ eventsCache' = r.events
                          /\ pc' = [pc EXCEPT ![c] = "save"]
       ELSE /\ pc' = [pc EXCEPT ![c] = "return"]
            /\ UNCHANGED <<eventsCache, local, scraped>>
    /\ UNCHANGED <<dataFile, fileBy, mutex, calls, last, run, startFile,
                   resp, saveFailed, token, now, partVars>>

\* if len(eventsCache) == 0 { events, err := scrapeEvents(); ... eventsCache = events }
Scrape(c) ==
    /\ pc[c] = "scrape"
    /\ IF Len(eventsCache) = 0
       THEN \E listing \in ServerListings :
            \E replies \in [1..Len(listing.rows) -> ServerGeoReplies] :
               LET r == scrapeEvents(listing, Format(now), token, replies, "server")
               IN /\ scraped' = scraped + 1
                  /\ IF r.err # "nil"
                     THEN /\ local' = [local EXCEPT ![c].err = r.err,
                                                    ![c].scrapes = @ + 1]
                          /\ pc' = [pc EXCEPT ![c] = "return"]
                          /\ UNCHANGED eventsCache
                     ELSE /\ local' = [local EXCEPT ![c].events = r.events,
                                                    ![c].scrapes = @ + 1]
                          /\ eventsCache' = r.events
                          /\ pc' = [pc EXCEPT ![c] = "save"]
       ELSE /\ pc' = [pc EXCEPT ![c] = "return"]
            /\ UNCHANGED <<eventsCache, local, scraped>>
    /\ UNCHANGED <<dataFile, fileBy, mutex, calls, last, run, startFile,
                   resp, saveFailed, token, now, partVars>>

\* the scraped collection is adopted and not written
SaveSkipped(c) ==
    /\ pc[c] = "save"
    /\ pc' = [pc EXCEPT ![c] = "return"]
    /\ UNCHANGED <<eventsCache, dataFile, fileBy, mutex, local, calls, last, scraped,
                   run, startFile, resp, saveFailed, token, now, partVars>>

\* if err := saveEventsToFile(events); err != nil { log a warning }
Save(c) ==
    /\ pc[c] = "save"
    /\ \E io \in SaveOutcomes :
          LET r == saveEventsToFile(dataFile, local[c].events, io)
          IN /\ dataFile' = r.file
             /\ fileBy' = IF r.err = "nil" THEN run
                          ELSE IF r.file = dataFile THEN fileBy ELSE 0
             /\ local' = [local EXCEPT ![c].saves = @ + 1, ![c].saveErr = r.err]
             /\ saveFailed' = (saveFailed \/ r.err # "nil")
    /\ pc' = [pc EXCEPT ![c] = "return"]
    /\ UNCHANGED <<eventsCache, mutex, calls, last, scraped, run, startFile, resp,
                   token, now, partVars>>

\* the scrape's error is logged and not returned
ReturnedSwallowed(c) ==
    [ret |-> eventsCache, err |-> "nil", cache |-> eventsCache, did |-> local[c]]

\* the load's error is kept and returned
ReturnedLoadErr(c) ==
    [ret |-> IF local[c].err # "nil" \/ local[c].loadErr # "nil" THEN <<>> ELSE eventsCache,
     err |-> IF local[c].loadErr # "nil" THEN local[c].loadErr ELSE local[c].err,
     cache |-> eventsCache,
     did |-> local[c]]

\* what getEvents returns, (nil, err) at line 328 and (eventsCache, nil) at
\* line 336, with the cache it leaves and what the call did
Returned(c) ==
    [ret |-> IF local[c].err # "nil" THEN <<>> ELSE eventsCache,
     err |-> local[c].err,
     cache |-> eventsCache,
     did |-> local[c]]

\* an error of getEvents is answered as an empty list of events
ResponseEmptyOnError(h, tok) ==
    [method |-> "GET", status |-> 200, payload |-> TRUE, events |-> h.ret,
     mapbox_token |-> tok]

\* apiHandler after getEvents returned h: the error answer of lines 348-351
\* or the APIResponse of lines 353-360, with the credential tok
Response(h, tok) ==
    IF h.err # "nil"
    THEN [method |-> "GET", status |-> 500, payload |-> FALSE, events |-> <<>>,
          mapbox_token |-> <<>>]
    ELSE [method |-> "GET", status |-> 200, payload |-> TRUE, events |-> h.ret,
          mapbox_token |-> tok]

\* apiHandler on a request that is not a GET, lines 342-345
MethodNotAllowed(method) ==
    [method |-> method, status |-> 405, payload |-> FALSE, events |-> <<>>,
     mapbox_token |-> <<>>]

Methods == {"GET", "POST"}

\* the return of line 328 leaves the mutex locked
ReturnLocked(c) ==
    /\ pc[c] = "return"
    /\ last' = Returned(c)
    /\ resp' = Response(Returned(c), token)
    /\ mutex' = IF local[c].err # "nil" THEN mutex ELSE 0
    /\ local' = [local EXCEPT ![c] = NoLocal]
    /\ pc' = [pc EXCEPT ![c] = "idle"]
    /\ UNCHANGED <<eventsCache, dataFile, fileBy, calls, scraped, run, startFile,
                   saveFailed, token, now, partVars>>

\* return, the deferred mutex.Unlock(), and the answer apiHandler writes
Return(c) ==
    /\ pc[c] = "return"
    /\ last' = Returned(c)
    /\ resp' = Response(Returned(c), token)
    /\ mutex' = 0
    /\ local' = [local EXCEPT ![c] = NoLocal]
    /\ pc' = [pc EXCEPT ![c] = "idle"]
    /\ UNCHANGED <<eventsCache, dataFile, fileBy, calls, scraped, run, startFile,
                   saveFailed, token, now, partVars>>

\* a request handler gets a request that is not a GET and answers it at once
Reject(c) ==
    /\ pc[c] = "idle"
    /\ \E method \in Methods \ {"GET"} : resp' = MethodNotAllowed(method)
    /\ UNCHANGED <<eventsCache, dataFile, fileBy, mutex, pc, local, calls, last,
                   scraped, run, startFile, saveFailed, token, now, partVars>>

\* The server process ends and run.sh starts a new one: memory is lost, the
\* file stays.  (A process killed inside a call leaves the file as a call
\* whose scrape or save fails leaves it, so only idle processes end here.)
Restart ==
    /\ run <= MaxRestarts
    /\ \A c \in Callers : pc[c] = "idle"
    /\ run' = run + 1
    /\ eventsCache' = <<>>
    /\ calls' = [c \in Callers |-> 0]
    /\ last' = NoCall
    /\ scraped' = 0
    /\ startFile' = [exists |-> dataFile.exists, by |-> fileBy]
    /\ resp' = NoResp
    /\ saveFailed' = FALSE
    /\ UNCHANGED <<dataFile, fileBy, mutex, pc, local, token, now, partVars>>

Next ==
    \/ \E c \in Callers : Call(c)
    \/ \E c \in Callers : Lock(c)
    \/ \E c \in Callers : Load(c)
    \/ \E c \in Callers : Scrape(c)
    \/ \E c \in Callers : Save(c)
    \/ \E c \in Callers : Return(c)
    \/ Restart

Spec == Init /\ [][Next]_vars

\* ------------------------------------------------- getEvents, scheduled
\* One server process with the credential, started without events.json or
\* with an earlier day's, whose remote calls and file accesses all return: a
\* caller inside getEvents takes its next step, and a caller waiting in
\* mutex.Lock() gets the lock when it is free often enough (sync.Mutex hands
\* the lock to a waiter that has waited long).
InitLive ==
    /\ Init
    /\ token # <<>>
    /\ dataFile \in {NoFile, File(MarshalIndent(<<OldEvent>>))}

NextLive ==
    \/ \E c \in Callers : Call(c)
    \/ \E c \in Callers : Lock(c)
    \/ \E c \in Callers : Load(c)
    \/ \E c \in Callers : Scrape(c)
    \/ \E c \in Callers : Save(c)
    \/ \E c \in Callers : Return(c)

Fairness ==
    \A c \in Callers :
        /\ SF_vars(Lock(c))
        /\ WF_vars(Load(c))
        /\ WF_vars(Scrape(c))
        /\ WF_vars(Save(c))
        /\ WF_vars(Return(c))

SpecLive == InitLive /\ [][NextLive]_vars /\ Fairness

\* ------------------------------------------------------------- apiHandler
\* One server process with the credential and no events.json, whose
\* handlers get requests of every method.
InitApi ==
    /\ Init
    /\ dataFile = NoFile
    /\ token # <<>>

NextApi ==
    \/ \E c \in Callers : Call(c)
    \/ \E c \in Callers : Reject(c)
    \/ \E c \in Callers : Lock(c)
    \/ \E c \in Callers : Load(c)
    \/ \E c \in Callers : Scrape(c)
    \/ \E c \in Callers : Save(c)
    \/ \E c \in Callers : Return(c)

SpecApi == InitApi /\ [][NextApi]_vars

\* -------------------------------------------------------- extraction alone
InitExtract ==
    /\ InitServer
    /\ dataFile = NoFile
    /\ token \in Tokens
    /\ now \in {Day(d) : d \in 1..MaxDay}
    /\ inListing \in ListingReplies(MaxRows)
    /\ inGeo \in [1..MaxRows -> GeoReplies]
    /\ outServer = NotRun
    /\ outBatch = NotRun
    /\ geoLog = NoLog
    /\ IdleBatch
    /\ IdleCache

\* scrapeEvents() of the server on the given replies
RunServer ==
    /\ outServer = NotRun
    /\ outServer' = scrapeEvents(inListing, Format(now), token, inGeo, "server")
    /\ geoLog' = [geoLog EXCEPT
          !.server = geocodeCalls(inListing, Format(now), token, inGeo, "server")]
    /\ UNCHANGED <<serverVars, token, now, inListing, inGeo, outBatch, batchVars,
                   cacheVars>>

\* scrapeEvents() of the Lambda scraper on the given replies
RunBatch ==
    /\ outBatch = NotRun
    /\ outBatch' = scrapeEvents(inListing, Format(now), token, inGeo, "batch")
    /\ geoLog' = [geoLog EXCEPT
          !.batch = geocodeCalls(inListing, Format(now), token, inGeo, "batch")]
    /\ UNCHANGED <<serverVars, token, now, inListing, inGeo, outServer, batchVars,
                   cacheVars>>

NextExtract == RunServer \/ RunBatch

SpecExtract == InitExtract /\ [][NextExtract]_vars

\* ------------------------------------------------------- cache file alone
\* The collections given to saveEventsToFile: events with and without
\* coordinates, with empty fields, of either variant.
CacheEvents ==
    {OldEvent,
     RowEvent(RowNoAddress, <<>>, CHOOSE r \in GeoReplies : r.err, "batch"),
     RowEvent(RowTomorrow, <<"p", "k">>,
              CHOOSE r \in GeoReplies : r.features = <<Atlanta, Athens>>, "server")}

InitCache ==
    /\ InitServer
    /\ token = <<"p", "k">>
    /\ now = Day(1)
    /\ IdleExtract
    /\ IdleBatch
    /\ inEvents \in SeqsUpTo(CacheEvents, MaxEvents)
    /\ outSave = "not run"
    /\ outLoad = NotRun

\* saveEventsToFile(inEvents)
SaveFile ==
    /\ \E io \in SaveOutcomes :
          LET r == saveEventsToFile(dataFile, inEvents, io)
          IN /\ dataFile' = r.file
             /\ outSave' = r.err
    /\ outLoad' = NotRun
    /\ UNCHANGED <<eventsCache, fileBy, mutex, pc, local, calls, last, scraped, run,
                   startFile, resp, saveFailed, token, now, extractVars, batchVars,
                   inEvents>>

\* loadEventsFromFile()
LoadFile ==
    /\ \E readOk \in BOOLEAN : outLoad' = loadEventsFromFile(dataFile, readOk)
    /\ UNCHANGED <<serverVars, token, now, extractVars, batchVars, inEvents, outSave>>

NextCache == SaveFile \/ LoadFile

SpecCache == InitCache /\ [][NextCache]_vars

\* ---------------------------------------------------- Lambda scraper alone
AwsOutcomes == {"ok", "configErr", "putErr"}

\* uploadToS3(ctx, data) of the Lambda scraper, with the environment env on
\* the day today: the PutObject requests it sends and the error it returns
uploadToS3(env, today, data, aws) ==
    LET bucketName == env.S3_BUCKET
        objectKey == today \o <<"_">> \o env.S3_OBJECT_KEY
    IN IF bucketName = <<>> \/ objectKey = <<>>
       THEN [put |-> <<>>,
             err |-> "missing S3_BUCKET or S3_OBJECT_KEY environment variables"]
       ELSE IF aws = "configErr"
       THEN [put |-> <<>>, err |-> "unable to load AWS SDK config"]
       ELSE [put |-> <<[Bucket |-> bucketName, Key |-> objectKey, Body |-> data]>>,
             err |-> IF aws = "putErr" THEN "failed to upload JSON to S3" ELSE "nil"]

InitBatch ==
    /\ InitServer
    /\ dataFile = NoFile
    /\ token \in Tokens
    /\ now = Day(1)
    /\ inListing \in ServerListings
    /\ inGeo \in [1..2 -> ServerGeoReplies]
    /\ outServer = NotRun
    /\ outBatch = NotRun
    /\ geoLog = NoLog
    /\ s3env \in [S3_BUCKET : {<<>>, <<"b">>}, S3_OBJECT_KEY : {<<>>, <<"k">>}]
    /\ s3 = <<>>
    /\ outHandler = "not run"
    /\ IdleCache

\* handler(ctx): scrape, marshal, upload
RunHandler ==
    /\ outHandler = "not run"
    /\ \E aws \in AwsOutcomes :
          LET r == scrapeEvents(inListing, Format(now), token, inGeo, "batch")
              u == uploadToS3(s3env, Format(now), MarshalIndent(r.events), aws)
          IN /\ outBatch' = r
             /\ IF r.err # "nil"
                THEN outHandler' = r.err /\ s3' = s3
                ELSE outHandler' = u.err /\ s3' = s3 \o u.put
    /\ UNCHANGED <<serverVars, token, now, inListing, inGeo, outServer, geoLog,
                   s3env, cacheVars>>

NextBatch == RunHandler

SpecBatch == InitBatch /\ [][NextBatch]_vars

\* ----------------------------------------------------------- properties
\* a call that returned without error, with an error
Ok(h) == h.err = "nil"

Failed(h) == h.err \notin {"nil", "none"}

\* caller c is about to return Returned(c); last is then the call before it
AtReturn(c) == pc[c] = "return"

\* every caller has made exactly one call, and all have returned but one,
\* which is about to
AllCalledOnce ==
    /\ \A c \in Callers : calls[c] = 1 /\ pc[c] \in {"idle", "return"}
    /\ \E c \in Callers : AtReturn(c)

\* C1 (in the case where no call returns an error): when all N callers have
\* called getEvents once in a process that found no cache file, exactly one
\* scrape was performed and every caller received the same collection.
C1_OneScrapeForAll ==
    \A c \in Callers :
        (/\ ~startFile.exists
         /\ AllCalledOnce
         /\ AtReturn(c)
         /\ Ok(Returned(c))
         /\ ~Failed(last))
        => /\ scraped = 1
           /\ Ok(last) => last.ret = Returned(c).ret

\* the scrapes of a call, plus one if it took events from the file
Fills(h) == h.did.scrapes + (IF h.did.fromFile # <<>> THEN 1 ELSE 0)

\* C2: two successive successful getEvents calls return the same collection,
\* and over both calls at most one scrape or one load of events from the
\* file happened.
C2_Idempotent ==
    \A c \in Callers :
        (AtReturn(c) /\ Ok(last) /\ Ok(Returned(c)))
        => /\ last.ret = Returned(c).ret
           /\ Fills(last) + Fills(Returned(c)) <= 1

\* C3: a call whose scrape fails returns that error and no collection, leaves
\* the in-memory collection empty and does not write the file; the next call
\* finds the collection empty, loads the file if there is one, and scrapes
\* unless the load gave it events.
C3_ScrapeFailureRetried ==
    last.did.err # "nil"
    => /\ last.err = last.did.err
       /\ last.ret = <<>>
       /\ last.cache = <<>>
       /\ last.did.saves = 0
       /\ mutex = 0 => eventsCache = <<>>
       /\ \A c \in Callers :
             AtReturn(c)
             => /\ local[c].atLock = <<>>
                /\ local[c].found => local[c].reads = 1
                /\ local[c].scrapes = 1 \/ local[c].fromFile # <<>>

\* a failed scrape is followed by a call that scrapes and is about to return
\* the events it got
C3_Witness ==
    /\ last.did.err # "nil"
    /\ \E c \in Callers :
          /\ AtReturn(c)
          /\ local[c].scrapes = 1
          /\ Ok(Returned(c))
          /\ Returned(c).ret # <<>>

\* C4: after a call that succeeded (the provider is LOADED), the next call
\* returns the held collection and does nothing else: the in-memory
\* collection is unchanged, the file is neither read nor written, and there
\* is no scrape.
C4_LoadedIsFinal ==
    \A c \in Callers :
        (AtReturn(c) /\ Ok(last))
        => /\ Ok(Returned(c))
           /\ Returned(c).ret = last.cache
           /\ eventsCache = last.cache
           /\ local[c].reads = 0
           /\ local[c].scrapes = 0
           /\ local[c].saves = 0

\* C5: a call that finds the in-memory collection empty and gets no events
\* from the file (no file, a failed load, or an empty array) scrapes exactly
\* once and never returns the load's error.
C5_LoadFailureFallsBack ==
    (last # NoCall /\ last.did.atLock = <<>> /\ last.did.fromFile = <<>>)
    => /\ last.did.scrapes = 1
       /\ last.err = last.did.err
       /\ last.err \notin {"read", "json"}

\* a call found a file that does not decode, scraped and returned events
C5_Witness ==
    /\ last.did.loadErr = "json"
    /\ last.did.scrapes = 1
    /\ Ok(last)
    /\ last.ret # <<>>

\* C6: a call whose scrape succeeds and whose save fails returns the scraped
\* collection without error and adopts it, and the next call returns it too.
C6_SaveFailureKeepsEvents ==
    last.did.saveErr # "nil"
    => /\ Ok(last)
       /\ last.ret = last.did.events
       /\ last.cache = last.did.events
       /\ \A c \in Callers :
             AtReturn(c) => Ok(Returned(c)) /\ Returned(c).ret = last.ret

\* The rows of a listing dated today, by position: the datetime attribute is
\* there and its first ten characters are today's date.
DatedToday(row, today) ==
    /\ row.hasDatetime
    /\ Len(row.datetimeAttr) >= Len(today)
    /\ \A k \in 1..Len(today) : row.datetimeAttr[k] = today[k]

TodayRows(rows, today) == {i \in 1..Len(rows) : DatedToday(rows[i], today)}

\* the position in the listing of the k-th row dated today
NthToday(rows, today, k) ==
    CHOOSE i \in TodayRows(rows, today) :
        Cardinality({j \in TodayRows(rows, today) : j <= i}) = k

\* the geocoding service's answer makes geocodeAddress fail
ReplyFails(reply) ==
    \/ reply.err
    \/ reply.status # 200
    \/ ~reply.decoded
    \/ reply.features = <<>>

\* The output out of a variant, run with the token tok, keeps the event of
\* every row dated today whose geocoding failed, with both coordinates at
\* the sentinel, and is an error only if the listing is.
SentinelOnFailure(out, tok, checksToken, sentinel) ==
    out # NotRun
    => /\ out.err # "nil" <=> ~ListingParsed(inListing)
       /\ ListingParsed(inListing)
          => /\ Len(out.events) = Cardinality(TodayRows(inListing.rows, Format(now)))
             /\ \A k \in 1..Len(out.events) :
                   LET i == NthToday(inListing.rows, Format(now), k)
                   IN (ReplyFails(inGeo[i]) \/ (checksToken /\ tok = <<>>))
                      => /\ out.events[k].Latitude = sentinel
                         /\ out.events[k].Longitude = sentinel

\* C7: a geocoding failure for a row dated today (no credential, transport
\* error, non-200 status, undecodable body, no feature) leaves the row's
\* event in the output with both coordinates at the sentinel, (0,0) in the
\* server and (-1,-1) in the Lambda scraper; the later rows are processed
\* and scrapeEvents returns no error.
C7_GeocodeFailureKeepsEvent ==
    /\ SentinelOnFailure(outServer, token, TRUE, 0)
    /\ SentinelOnFailure(outBatch, token, FALSE, -1)

\* both variants ran on a listing of two rows dated today where the first
\* row's geocoding failed and the second row's succeeded
C7_Witness ==
    /\ Len(outServer.events) = 2
    /\ Len(outBatch.events) = 2
    /\ ReplyFails(inGeo[1])
    /\ outServer.events[1].Latitude = 0
    /\ outBatch.events[1].Longitude = -1
    /\ outServer.events[2].Longitude = Athens[1]
    /\ outBatch.events[2].Latitude = Athens[2]

\* The output out holds one event for each row dated today, in the order of
\* the listing, and nothing else.
OneEventPerTodayRow(out) ==
    (out # NotRun /\ ListingParsed(inListing))
    => /\ Len(out.events) = Cardinality(TodayRows(inListing.rows, Format(now)))
       /\ \A k \in 1..Len(out.events) :
             LET row == inListing.rows[NthToday(inListing.rows, Format(now), k)]
             IN /\ out.events[k].Date = row.datetimeAttr
                /\ out.events[k].Title = TrimSpace(row.title)
                /\ out.events[k].Address = TrimSpace(row.address)

\* C8: the extractor returns exactly one event for each row whose date
\* attribute is present and prefixed by today's date, in document order and
\* with duplicates kept, and none for any other row; a listing without such
\* a row gives the empty sequence.
C8_OnlyTodayRowsInOrder ==
    /\ OneEventPerTodayRow(outServer)
    /\ OneEventPerTodayRow(outBatch)

\* a listing of a skipped row followed by a row dated today gave one event,
\* and the same row twice gave two events
C8_Witness ==
    /\ outServer # NotRun
    /\ outBatch # NotRun
    /\ ListingParsed(inListing)
    /\ Len(inListing.rows) = 2
    /\ \/ /\ ~DatedToday(inListing.rows[1], Format(now))
          /\ Len(outServer.events) = 1
          /\ outServer.events[1].Date = inListing.rows[2].datetimeAttr
       \/ /\ inListing.rows[1] = inListing.rows[2]
          /\ Len(outBatch.events) = 2

\* C9: in a run that found a file written by an earlier run's save (and can
\* read it), no call scrapes and every call returns the file's collection.
C9_SecondRunServesFile ==
    (/\ run > 1
     /\ startFile.by >= 1
     /\ \A c \in Callers : local[c].loadErr = "nil"
     /\ last.did.loadErr = "nil")
    => /\ scraped = 0
       /\ last # NoCall => Ok(last) /\ last.ret = Unmarshal(dataFile.data).events

\* C10: without MAPBOX_ACCESS_TOKEN no call adopts a collection, writes the
\* file or returns a collection (here in a process that found no file, so
\* that only a scrape can give it events).
C10_NoTokenNoEvents ==
    (token = <<>> /\ ~startFile.exists)
    => /\ eventsCache = <<>>
       /\ fileBy # run
       /\ \A c \in Callers : local[c].saves = 0
       /\ last # NoCall => Failed(last)

\* the events of a collection all have a title that is not empty
NonEmptyTitles(events) == \A k \in 1..Len(events) : events[k].Title # <<>>

\* C11: every event of every collection the extractor produced (server or
\* Lambda scraper) or the provider holds or returned has a non-empty title.
C11_TitlesNonEmpty ==
    /\ NonEmptyTitles(outServer.events)
    /\ NonEmptyTitles(outBatch.events)
    /\ NonEmptyTitles(eventsCache)
    /\ NonEmptyTitles(last.ret)

\* Every event of the output out has the coordinates of the first feature of
\* the reply to its row's lookup, or has both coordinates at the sentinel.
BothOrNeither(out, sentinel) ==
    (out # NotRun /\ ListingParsed(inListing))
    => \A k \in 1..Len(out.events) :
          LET reply == inGeo[NthToday(inListing.rows, Format(now), k)]
              e == out.events[k]
          IN \/ /\ reply.features # <<>>
                /\ e.Longitude = reply.features[1][1]
                /\ e.Latitude = reply.features[1][2]
             \/ /\ e.Latitude = sentinel
                /\ e.Longitude = sentinel

\* C12: in every collection the extractor produces, an event's latitude and
\* longitude are both those of the first geocoding candidate or both the
\* failure sentinel of the variant, never one of each.
C12_CoordinatesBothOrNeither ==
    /\ BothOrNeither(outServer, Sentinel("server"))
    /\ BothOrNeither(outBatch, Sentinel("batch"))

\* the Lambda scraper ran on two rows dated today: the first lookup found two
\* candidates and the event has the first one's coordinates, the second
\* lookup failed and the event has the sentinel twice
C12_Witness ==
    /\ Len(outBatch.events) = 2
    /\ inGeo[1].features = <<Atlanta, Athens>>
    /\ outBatch.events[1].Longitude = Atlanta[1]
    /\ outBatch.events[1].Latitude = Atlanta[2]
    /\ ReplyFails(inGeo[2])
    /\ outBatch.events[2].Longitude = Sentinel("batch")
    /\ outBatch.events[2].Latitude = Sentinel("batch")

\* The log of a variant that ran holds, for the k-th row dated today, the
\* call with that row's address at place 2k-1 and its return at place 2k,
\* and nothing else.
OneCallPerTodayRow(out, log) ==
    out # NotRun
    => IF ~ListingParsed(inListing) THEN log = <<>>
       ELSE /\ Len(log) = 2 * Cardinality(TodayRows(inListing.rows, Format(now)))
            /\ \A k \in 1..(Len(log) \div 2) :
                  LET i == NthToday(inListing.rows, Format(now), k)
                      address == TrimSpace(inListing.rows[i].address)
                  IN /\ log[2 * k - 1] = [op |-> "call", row |-> i, address |-> address]
                     /\ log[2 * k] = [op |-> "return", row |-> i, address |-> address]

\* C16: within one scrape geocodeAddress is called exactly once for each row
\* dated today and for no other row, in document order, each call returning
\* before the next starts; a failed call is not repeated and an address seen
\* before is looked up again.
C16_OneGeocodeCallPerRow ==
    /\ OneCallPerTodayRow(outServer, geoLog.server)
    /\ OneCallPerTodayRow(outBatch, geoLog.batch)

\* the server scraped a listing holding the same row dated today twice, the
\* first lookup failed, and the address was looked up twice, once per row
C16_Witness ==
    /\ outServer # NotRun
    /\ ListingParsed(inListing)
    /\ Len(inListing.rows) = 2
    /\ inListing.rows[1] = inListing.rows[2]
    /\ ReplyFails(inGeo[1])
    /\ Len(geoLog.server) = 4
    /\ geoLog.server[1].address = geoLog.server[3].address
    /\ geoLog.server[1].row = 1
    /\ geoLog.server[3].row = 2

providerVars == <<eventsCache, dataFile, fileBy, mutex, pc, local, calls, last, scraped>>

\* C14: a request that is not a GET is answered 405 without a payload and
\* without getEvents (nothing of the provider changes in that step); a GET
\* whose getEvents returned an error is answered 500 without events, and one
\* whose getEvents succeeded is answered with the returned events and the
\* credential.
C14_EndpointStatuses ==
    /\ [](resp.method = "GET"
          => \/ /\ Failed(last)
                /\ resp.status = 500
                /\ ~resp.payload
                /\ resp.events = <<>>
             \/ /\ Ok(last)
                /\ resp.status = 200
                /\ resp.payload
                /\ resp.events = last.ret
                /\ resp.mapbox_token = token)
    /\ [][(resp' # resp /\ resp'.method \notin {"GET", "none"})
          => /\ resp'.status = 405
             /\ ~resp'.payload
             /\ UNCHANGED providerVars]_vars

\* a POST was answered 405 after a GET had been answered with events
C14_Witness ==
    /\ resp.method = "POST"
    /\ resp.status = 405
    /\ Ok(last)
    /\ last.ret # <<>>

\* caller c is between mutex.Lock() and the deferred mutex.Unlock()
InSequence(c) == pc[c] \in {"load", "scrape", "save", "return"}

\* events is what scrapeEvents returns, without error, on some answers
ScrapeResult(events) ==
    \E listing \in ServerListings :
    \E replies \in [1..Len(listing.rows) -> ServerGeoReplies] :
        scrapeEvents(listing, Format(now), token, replies, "server") =
            [events |-> events, err |-> "nil"]

\* C15: at most one caller is inside the sequence of getEvents, and it holds
\* the mutex; eventsCache is only ever assigned, by that caller, the whole
\* collection of the file or the whole result of one scrapeEvents; and a
\* call that returns without error returns the in-memory collection.
C15_MutualExclusion ==
    /\ [](\A c, d \in Callers :
            /\ InSequence(c) => mutex = c
            /\ (InSequence(c) /\ InSequence(d)) => c = d)
    /\ [][/\ (eventsCache' # eventsCache /\ run' = run)
             => \E c \in Callers :
                   /\ mutex = c
                   /\ \/ /\ pc[c] = "load"
                         /\ eventsCache' = Unmarshal(dataFile.data).events
                      \/ /\ pc[c] = "scrape"
                         /\ ScrapeResult(eventsCache')
          /\ (last' # last /\ run' = run /\ Ok(last'))
             => /\ last'.ret = eventsCache
                /\ eventsCache' = eventsCache]_vars

\* one caller is about to save what it scraped while another waits for the
\* lock
C15_Witness ==
    \E c, d \in Callers :
        /\ pc[c] = "save"
        /\ local[c].events # <<>>
        /\ pc[d] = "lock"

\* C17: uploadToS3 returns the error about the missing variables and sends
\* no PutObject whenever S3_BUCKET or S3_OBJECT_KEY is unset; a handler whose
\* scrape fails returns that error and sends no PutObject.
C17_UploadNeedsBucketAndKey ==
    outHandler # "not run"
    => /\ (outBatch.err = "nil" /\ (s3env.S3_BUCKET = <<>> \/ s3env.S3_OBJECT_KEY = <<>>))
          => /\ outHandler = "missing S3_BUCKET or S3_OBJECT_KEY environment variables"
             /\ s3 = <<>>
       /\ outBatch.err # "nil" => (outHandler = outBatch.err /\ s3 = <<>>)
       /\ s3 # <<>> => outBatch.err = "nil"

\* the call h scraped without error and got no event
ZeroScrape(h) == h.did.scrapes = 1 /\ h.did.err = "nil" /\ h.did.events = <<>>

\* the file reads, scrapes and file writes of caller c's call so far
InputOutput(c) == local[c].reads + local[c].scrapes + local[c].saves

\* C18: a call whose scrape succeeds with zero events returns them and leaves
\* the in-memory collection empty; the next call finds it empty, reads the
\* file if it is there (it is, when the save worked), scrapes again and,
\* when that scrape succeeds, writes the file again.  A call does no file
\* or network access exactly when it found the collection non-empty.
C18_EmptyScrapeNotLoaded ==
    /\ ZeroScrape(last)
       => /\ Ok(last)
          /\ last.ret = <<>>
          /\ last.cache = <<>>
          /\ \A c \in Callers :
                AtReturn(c)
                => /\ local[c].atLock = <<>>
                   /\ last.did.saveErr = "nil" => local[c].found
                   /\ local[c].found => local[c].reads = 1
                   /\ local[c].scrapes = 1
                   /\ local[c].err = "nil" => local[c].saves = 1
    /\ \A c \in Callers :
          AtReturn(c) => (InputOutput(c) = 0 <=> local[c].atLock # <<>>)

\* C18 (with an older file that a failed save left in place allowed for):
\* a call whose scrape succeeds with zero events returns them
\* and leaves the in-memory collection empty; the next call finds it empty
\* and reads the file if it is there.  When the save worked, the file holds
\* no event and the next call scrapes again; when it did not, the next call
\* scrapes again unless an older file gives it events.  A scrape that
\* succeeds is followed by a write of the file.  A call does no file or
\* network access exactly when it found the collection non-empty.
C18_EmptyScrapeRepeated ==
    /\ ZeroScrape(last)
       => /\ Ok(last)
          /\ last.ret = <<>>
          /\ last.cache = <<>>
          /\ \A c \in Callers :
                AtReturn(c)
                => /\ local[c].atLock = <<>>
                   /\ last.did.saveErr = "nil"
                      => /\ local[c].found
                         /\ local[c].fromFile = <<>>
                         /\ local[c].scrapes = 1
                   /\ local[c].found => local[c].reads = 1
                   /\ local[c].scrapes = 1 \/ local[c].fromFile # <<>>
                   /\ (local[c].scrapes = 1 /\ local[c].err = "nil")
                      => local[c].saves = 1
    /\ \A c \in Callers :
          AtReturn(c) => (InputOutput(c) = 0 <=> local[c].atLock # <<>>)

\* a call scraped zero events and saved them, and the next call has read the
\* file, scraped and written the file again
C18_Witness ==
    /\ ZeroScrape(last)
    /\ last.did.saveErr = "nil"
    /\ \E c \in Callers :
          /\ AtReturn(c)
          /\ local[c].reads = 1
          /\ local[c].scrapes = 1
          /\ local[c].saves = 1
          /\ local[c].saveErr = "nil"

C20_EveryCallerReturns ==
    /\ [](\A c \in Callers : mutex = c => InSequence(c))
    /\ \A c \in Callers : (pc[c] # "idle") ~> (pc[c] = "idle" /\ mutex # c)

\* every caller has called once and returned, the last one with an error
C20_Witness ==
    /\ \A c \in Callers : calls[c] = 1 /\ pc[c] = "idle"
    /\ mutex = 0
    /\ Failed(last)

====
